---- MODULE Spec2Model ----
(***************************************************************************)
(* Model of src/omada_reboot.py: the OmadaAPI client.                      *)
(*                                                                         *)
(* Python values are tagged tuples: <<"none">>, <<"int", n>>,              *)
(* <<"str", chunks>> (a string is the concatenation of its chunks),        *)
(* <<"tuple", elems>>, <<"obj", qualname>> (an instance of a class json    *)
(* cannot encode) and <<"dict", items>> (items: the <<key, value>> pairs   *)
(* in insertion order).  Serialized text is a sequence of string tokens.   *)
(***************************************************************************)
EXTENDS Integers, Sequences, FiniteSets, TLC

VARIABLES
    pc,             \* position of the program: "start", "prompt", "login", "ready", "failed"
    config_dict,    \* self.config_dict
    token,          \* self.token
    login_token,    \* self.login_token
    baseurl,        \* self.baseurl
    site,           \* self.site
    verify,         \* self.verify
    login_username, \* self.login_username
    login_password, \* self.login_password
    session_verify, \* self.session.verify
    typed,          \* what the user typed at the two input() prompts
    trace,          \* the makeApiCall invocations made by the constructor, in order
    call,           \* the latest makeApiCall invocation made by the caller (<<>> or <<c>>)
    ncalls          \* how many makeApiCall invocations the caller has made

vars == <<pc, config_dict, token, login_token, baseurl, site, verify,
          login_username, login_password, session_verify, typed, trace, call, ncalls>>

fields == <<config_dict, token, login_token, baseurl, site, verify,
            login_username, login_password, session_verify>>

-----------------------------------------------------------------------------
(* Bounds *)

\* get_timestamp() returns a value of the wall clock, one of 1..MaxTime
MaxTime == 2

\* the caller makes at most MaxCalls calls of makeApiCall on the constructed object
MaxCalls == 2

-----------------------------------------------------------------------------
(* Python values *)

None == <<"none">>

\* an attribute that has not been assigned yet
Unset == <<"unset">>

Num(n) == <<"int", n>>

Str(chunks) == <<"str", chunks>>

S(c) == Str(<<c>>)

Bool(b) == <<"bool", b>>

Tuple(elems) == <<"tuple", elems>>

Obj(qualname) == <<"obj", qualname>>

Dict(items) == <<"dict", items>>

IsStr(v) == v[1] = "str"

IsDict(v) == v[1] = "dict"

\* str + str
Concat(a, b) == Str(a[2] \o b[2])

Keys(d) == {d[2][i][1] : i \in 1..Len(d[2])}

HasKey(d, k) == k \in Keys(d)

\* d[k], for a key d has
Get(d, k) == d[2][CHOOSE i \in 1..Len(d[2]) : d[2][i][1] = k][2]

\* d[k] = v: a key d has keeps its position, a new key goes last
SetItem(d, k, v) ==
    IF HasKey(d, k)
    THEN Dict([i \in 1..Len(d[2]) |-> IF d[2][i][1] = k THEN <<k, v>> ELSE d[2][i]])
    ELSE Dict(Append(d[2], <<k, v>>))

RECURSIVE Update(_, _)
\* d.update(items)
Update(d, items) ==
    IF items = <<>> THEN d
    ELSE Update(SetItem(d, Head(items)[1], Head(items)[2]), Tail(items))

-----------------------------------------------------------------------------
(* json.dumps(obj, default=...) *)

\* the default= hook of safe_json_serialize
non_serializable(o) == Str(<<"<<non-serializable: ", o[2], ">>">>)

Quoted(s) == <<"\"">> \o s[2] \o <<"\"">>

\* the encoder's treatment of a dict key (skipkeys is False)
EncodeKey(k) ==
    CASE k[1] = "str" -> [ok |-> TRUE, out |-> Quoted(k)]
      [] k[1] = "int" -> [ok |-> TRUE, out |-> <<"\"", ToString(k[2]), "\"">>]
      [] k[1] = "bool" -> [ok |-> TRUE, out |-> <<"\"", IF k[2] THEN "true" ELSE "false", "\"">>]
      [] k[1] = "none" -> [ok |-> TRUE, out |-> <<"\"", "null", "\"">>]
      [] OTHER -> [ok |-> FALSE, out |-> <<"TypeError: keys must be str, int, float, bool or None">>]

RECURSIVE dumps(_)
RECURSIVE dumps_list(_)
RECURSIVE dumps_items(_)

dumps_list(elems) ==
    IF elems = <<>> THEN [ok |-> TRUE, out |-> <<>>]
    ELSE LET h == dumps(Head(elems))
             t == dumps_list(Tail(elems))
         IN  IF ~h.ok THEN h
             ELSE IF ~t.ok THEN t
             ELSE [ok |-> TRUE,
                   out |-> h.out \o (IF Tail(elems) = <<>> THEN <<>> ELSE <<", ">>) \o t.out]

dumps_items(items) ==
    IF items = <<>> THEN [ok |-> TRUE, out |-> <<>>]
    ELSE LET k == EncodeKey(Head(items)[1])
             v == dumps(Head(items)[2])
             t == dumps_items(Tail(items))
         IN  IF ~k.ok THEN k
             ELSE IF ~v.ok THEN v
             ELSE IF ~t.ok THEN t
             ELSE [ok |-> TRUE,
                   out |-> k.out \o <<": ">> \o v.out
                           \o (IF Tail(items) = <<>> THEN <<>> ELSE <<", ">>) \o t.out]

dumps(o) ==
    CASE o[1] = "none" -> [ok |-> TRUE, out |-> <<"null">>]
      [] o[1] = "bool" -> [ok |-> TRUE, out |-> <<IF o[2] THEN "true" ELSE "false">>]
      [] o[1] = "int" -> [ok |-> TRUE, out |-> <<ToString(o[2])>>]
      [] o[1] = "str" -> [ok |-> TRUE, out |-> Quoted(o)]
      [] o[1] = "tuple" ->
            LET r == dumps_list(o[2])
            IN  IF r.ok THEN [ok |-> TRUE, out |-> <<"[">> \o r.out \o <<"]">>] ELSE r
      [] o[1] = "dict" ->
            LET r == dumps_items(o[2])
            IN  IF r.ok THEN [ok |-> TRUE, out |-> <<"{">> \o r.out \o <<"}">>] ELSE r
      [] OTHER -> dumps(non_serializable(o))

safe_json_serialize(obj) == dumps(obj)

-----------------------------------------------------------------------------
(* makeApiCall *)

base_api_path == S("/api/v2")

\* a path_to_url that joins its parts with a separator
path_to_url_slash(path) == Concat(Concat(Concat(baseurl, base_api_path), S("/")), path)

\* self.baseurl + self.base_api_path + path
path_to_url(path) == Concat(Concat(baseurl, base_api_path), path)

\* an update that leaves the timestamp out
AttachTokenOnly(params, tok, ts) == Update(params, << <<S("token"), tok>> >>)

\* an update that lets the caller's own keys win
AttachTokenCallerWins(params, tok, ts) ==
    Update(Dict(<< <<S("token"), tok>>, <<S("_"), Num(ts)>> >>), params[2])

\* a fresh mapping with the two keys instead of an update
AttachTokenFresh(params, tok, ts) == Dict(<< <<S("token"), tok>>, <<S("_"), Num(ts)>> >>)

\* endpoint_params.update({"token": self.token, "_": self.get_timestamp()})
AttachToken(params, tok, ts) ==
    Update(params, << <<S("token"), tok>>, <<S("_"), Num(ts)>> >>)

HttpVerbs == {"GET", "POST", "PATCH"}

\* the arguments the session method of the verb is called with
Request(mode, url, params, data, json) ==
    [verb |-> mode, url |-> url, params |-> params,
     data |-> IF mode = "GET" THEN None ELSE data,
     json |-> IF mode = "GET" THEN None ELSE json]

\* a returned dict whose pretty fields are mixed up
ResponseSwapped(url, params, json_data) ==
    [url |-> url,
     endpoint_params |-> params,
     endpoint_params_pretty |-> safe_json_serialize(json_data).out,
     json_data |-> json_data,
     json_data_pretty |-> safe_json_serialize(params).out]

\* the dict makeApiCall returns
Response(url, params, json_data) ==
    [url |-> url,
     endpoint_params |-> params,
     endpoint_params_pretty |-> safe_json_serialize(params).out,
     json_data |-> json_data,
     json_data_pretty |-> safe_json_serialize(json_data).out]

\* what the debug branch prints
Printed(a, r) ==
    IF a.debug THEN <<r.url, r.endpoint_params_pretty, r.json_data_pretty>> ELSE <<>>

\* an invocation that ended, by an exception (exc, raised at `at`) or by a return:
\* its arguments, the caller's endpoint_params object afterwards, the request handed
\* to the session and the answer to it, the returned dict, the printed lines
Outcome(a, params_after, sent, reply, exc, at, ret) ==
    [args |-> a, params_after |-> params_after, sent |-> sent, reply |-> reply,
     exc |-> exc, at |-> at, ret |-> ret,
     printed |-> IF ret = <<>> THEN <<>> ELSE Printed(a, ret[1])]

\* makeApiCall(**a), when get_timestamp() returns ts and the controller answers reply
makeApiCall(a, ts, reply) ==
    IF ~a.bare_url /\ ~IsStr(baseurl)
    THEN Outcome(a, a.endpoint_params, <<>>, <<>>, "TypeError", "path_to_url", <<>>)
    ELSE
    LET url == IF a.bare_url THEN a.url ELSE path_to_url(a.url)
    IN
    IF a.include_token /\ ~IsDict(a.endpoint_params)
    THEN Outcome(a, a.endpoint_params, <<>>, <<>>, "AttributeError", "update", <<>>)
    ELSE
    LET params == IF a.include_token
                  THEN AttachToken(a.endpoint_params, token, ts)
                  ELSE a.endpoint_params
    IN
    IF a.mode \notin HttpVerbs
    THEN Outcome(a, params, <<>>, <<>>, "ValueError", "mode", <<>>)
    ELSE
    LET req == Request(a.mode, url, params, a.data, a.json)
    IN
    IF ~reply.is_json
    THEN Outcome(a, params, <<req>>, <<reply>>, "JSONDecodeError", "json", <<>>)
    ELSE IF ~safe_json_serialize(params).ok
    THEN Outcome(a, params, <<req>>, <<reply>>, "TypeError", "safe_json_serialize", <<>>)
    ELSE IF ~safe_json_serialize(reply.body).ok
    THEN Outcome(a, params, <<req>>, <<reply>>, "TypeError", "safe_json_serialize", <<>>)
    ELSE Outcome(a, params, <<req>>, <<reply>>, "none", "return", <<Response(url, params, reply.body)>>)

-----------------------------------------------------------------------------
(* The environment: the config file, the prompt, the controller, the caller *)

\* the defaults of makeApiCall's parameters
Defaults ==
    [url |-> None, mode |-> "GET", endpoint_params |-> None, data |-> None,
     json |-> None, debug |-> FALSE, include_token |-> TRUE, bare_url |-> FALSE]

\* the session tokens the controller issues
Tokens == {S("T1"), S("T2")}

\* a login answer carrying a token
RespToken(t) ==
    Dict(<< <<S("errorCode"), Num(0)>>,
            <<S("result"), Dict(<< <<S("token"), t>> >>)>> >>)

\* an answer without a result
RespError == Dict(<< <<S("errorCode"), Num(-1)>>, <<S("msg"), S("error")>> >>)

Replies ==
    {[is_json |-> TRUE, body |-> RespToken(t)] : t \in Tokens}
    \cup {[is_json |-> TRUE, body |-> RespError], [is_json |-> FALSE, body |-> None]}

Times == 1..MaxTime

ConfigFull ==
    Dict(<< <<S("baseurl"), S("https://controller")>>, <<S("site"), S("Office")>>,
            <<S("verify"), Bool(FALSE)>>, <<S("username"), S("admin")>>,
            <<S("password"), S("secret")>> >>)

ConfigNoPassword ==
    Dict(<< <<S("baseurl"), S("https://controller")>>, <<S("site"), S("Office")>>,
            <<S("verify"), Bool(FALSE)>>, <<S("username"), S("admin")>> >>)

ConfigFiles == {ConfigFull, ConfigNoPassword}

\* the constructor's baseurl argument: its default, or a string
BaseurlArgs == {None, S("https://controller")}

\* what the user types at the prompt
Typed == {<<S("alice"), S("hunter2")>>}

\* the answers to a call of the caller: a JSON body, or a body that is not JSON
CallReplies == {[is_json |-> TRUE, body |-> RespError], [is_json |-> FALSE, body |-> None]}

\* the endpoint_params the caller passes: the default, empty, with keys of its own
\* named "token" and "_", with a value json cannot encode, with a tuple as a key
CallerParams ==
    {None,
     Dict(<<>>),
     Dict(<< <<S("token"), S("stale")>>, <<S("page"), Num(1)>>, <<S("_"), Num(0)>> >>),
     Dict(<< <<S("since"), Obj("datetime")>> >>),
     Dict(<< <<Tuple(<<Num(1), Num(2)>>), S("x")>> >>)}

CallerModes == {"GET", "POST", "PATCH", "PUT"}

\* a path for the controller's API, or an absolute URL passed with bare_url
CallerUrls == {<<S("/devices"), FALSE>>, <<S("https://other/raw"), TRUE>>}

CallerArgs ==
    {[url |-> u[1], mode |-> m, endpoint_params |-> p, data |-> None,
      json |-> IF m = "GET" THEN None ELSE Dict(<< <<S("name"), S("ap1")>> >>),
      debug |-> FALSE, include_token |-> i, bare_url |-> u[2]] :
        u \in CallerUrls, m \in CallerModes, p \in CallerParams, i \in BOOLEAN}

-----------------------------------------------------------------------------
(* The constructor *)

Init ==
    /\ pc = "start"
    /\ config_dict = Unset
    /\ token = Unset
    /\ login_token = Unset
    /\ baseurl = Unset
    /\ site = Unset
    /\ verify = Unset
    /\ login_username = Unset
    /\ login_password = Unset
    /\ session_verify = Unset
    /\ typed = <<>>
    /\ trace = <<>>
    /\ call = <<>>
    /\ ncalls = 0

\* the keys __init__ reads from the config, in the order it reads them
ConfigKeys == <<S("baseurl"), S("site"), S("verify"), S("username"), S("password")>>

\* self.config_dict[ConfigKeys[n]] is reached and raises no KeyError
ConfigRead(cfg, n) == \A i \in 1..n : HasKey(cfg, ConfigKeys[i])

ConfigValue(cfg, n) == IF ConfigRead(cfg, n) THEN Get(cfg, ConfigKeys[n]) ELSE Unset

\* __init__ with a config file: up to the call of login
StartConfig ==
    /\ pc = "start"
    /\ \E cfg \in ConfigFiles :
        /\ config_dict' = cfg
        /\ baseurl' = ConfigValue(cfg, 1)
        /\ site' = ConfigValue(cfg, 2)
        /\ verify' = ConfigValue(cfg, 3)
        /\ login_username' = ConfigValue(cfg, 4)
        /\ login_password' = ConfigValue(cfg, 5)
        /\ pc' = IF ConfigRead(cfg, 5) THEN "login" ELSE "failed"
    /\ token' = None
    /\ UNCHANGED <<login_token, session_verify, typed, trace, call, ncalls>>

\* __init__ without a config file: up to the two input() calls of login_prompt
StartPrompt ==
    /\ pc = "start"
    /\ token' = None
    /\ \E b \in BaseurlArgs : baseurl' = b
    /\ site' = S("Default")
    /\ verify' = Bool(TRUE)
    /\ \E t \in Typed : typed' = t
    /\ pc' = "prompt"
    /\ UNCHANGED <<config_dict, login_token, login_username, login_password,
                   session_verify, trace, call, ncalls>>

\* the arguments of login_prompt's makeApiCall
PromptArgs ==
    [Defaults EXCEPT
        !.url = S("/login"),
        !.endpoint_params = Dict(<< <<S("username"), S("login_username")>>,
                                    <<S("password"), S("login_password")>> >>)]

\* what login_prompt returns
PromptResult == <<None, None>>

\* the rest of login_prompt, and the assignment of its result
PromptCall ==
    /\ pc = "prompt"
    /\ \E ts \in Times, reply \in Replies :
        LET c == makeApiCall(PromptArgs, ts, reply)
        IN  /\ trace' = Append(trace, c)
            /\ IF c.exc = "none"
               THEN /\ login_username' = PromptResult[1]
                    /\ login_password' = PromptResult[2]
                    /\ pc' = "login"
               ELSE /\ UNCHANGED <<login_username, login_password>>
                    /\ pc' = "failed"
    /\ UNCHANGED <<config_dict, token, login_token, baseurl, site, verify,
                   session_verify, typed, call, ncalls>>

\* the JSON body of login's request
login_json_dict ==
    Dict(<< <<S("username"), login_username>>, <<S("password"), login_password>> >>)

\* login's arguments without the mode
LoginArgsDefaultMode ==
    [Defaults EXCEPT
        !.url = S("/login"), !.json = login_json_dict,
        !.include_token = FALSE, !.debug = TRUE]

\* the arguments of login's makeApiCall
LoginArgs ==
    [Defaults EXCEPT
        !.url = S("/login"), !.json = login_json_dict, !.mode = "POST",
        !.include_token = FALSE, !.debug = TRUE]

\* result["json_data"]["result"]["token"] raises no KeyError or TypeError
HasToken(json_data) ==
    /\ IsDict(json_data)
    /\ HasKey(json_data, S("result"))
    /\ IsDict(Get(json_data, S("result")))
    /\ HasKey(Get(json_data, S("result")), S("token"))

\* result["json_data"]["result"]["token"]
ExtractToken(json_data) == Get(Get(json_data, S("result")), S("token"))

\* the session is made and login() runs: the end of __init__
Login ==
    /\ pc = "login"
    /\ session_verify' = verify
    /\ \E ts \in Times, reply \in Replies :
        LET c == makeApiCall(LoginArgs, ts, reply)
        IN  /\ trace' = Append(trace, c)
            /\ IF c.exc = "none" /\ HasToken(c.ret[1].json_data)
               THEN /\ token' = ExtractToken(c.ret[1].json_data)
                    /\ login_token' = token'
                    /\ pc' = "ready"
               ELSE /\ UNCHANGED <<token, login_token>>
                    /\ pc' = "failed"
    /\ UNCHANGED <<config_dict, baseurl, site, verify, login_username, login_password,
                   typed, call, ncalls>>

\* the caller calls makeApiCall on the constructed object
ApiCall ==
    /\ pc = "ready"
    /\ ncalls < MaxCalls
    /\ \E a \in CallerArgs, ts \in Times, reply \in CallReplies :
        call' = <<makeApiCall(a, ts, reply)>>
    /\ ncalls' = ncalls + 1
    /\ UNCHANGED <<pc, fields, typed, trace>>

Next == StartConfig \/ StartPrompt \/ PromptCall \/ Login \/ ApiCall

Spec == Init /\ [][Next]_vars

-----------------------------------------------------------------------------
(* Properties *)

\* every makeApiCall invocation on record
Calls == {trace[i] : i \in 1..Len(trace)} \cup {call[i] : i \in 1..Len(call)}

\* the invocations that handed a request to the session
Sending == {c \in Calls : c.sent # <<>>}

FromConfig == config_dict # Unset

FromPrompt == typed # <<>>

TokenKeys == {S("token"), S("_")}

\* C1: with a config file the first request is one POST to baseurl + "/api/v2" +
\* "/login" whose JSON body is the config's username and password; token is None
\* until the answer is processed; once the constructor has returned, token and
\* login_token are the result.token of that answer.
C1_LoginThenToken ==
    FromConfig =>
        /\ pc # "ready" => token = None
        /\ trace # <<>> =>
            /\ Len(trace) = 1
            /\ Len(trace[1].sent) = 1
            /\ trace[1].sent[1].verb = "POST"
            /\ trace[1].sent[1].url =
                   Str(Get(config_dict, S("baseurl"))[2] \o <<"/api/v2", "/login">>)
            /\ trace[1].sent[1].json =
                   Dict(<< <<S("username"), Get(config_dict, S("username"))>>,
                           <<S("password"), Get(config_dict, S("password"))>> >>)
        /\ pc = "ready" =>
            /\ trace # <<>>
            /\ token = Get(Get(trace[1].reply[1].body, S("result")), S("token"))
            /\ login_token = token
            /\ token \in Tokens

\* C1 witness: a constructor that read the config file has returned with the
\* second token.
C1_Witness == FromConfig /\ pc = "ready" /\ token = S("T2") /\ Len(trace) = 1

\* C2 as stated: every request issued through makeApiCall, the constructor's
\* included, carries "token" and "_" in its query parameters.
C2_EveryRequestCarriesToken ==
    \A c \in Sending :
        /\ IsDict(c.sent[1].params)
        /\ TokenKeys \subseteq Keys(c.sent[1].params)

\* C2 amended: every request issued by a makeApiCall with include_token=True
\* carries "token" and "_"; the login request, issued with include_token=False and
\* no endpoint_params, carries no query parameters at all.
C2_TokenCallsCarryToken ==
    \A c \in Sending :
        /\ c.args.include_token =>
            /\ IsDict(c.sent[1].params)
            /\ TokenKeys \subseteq Keys(c.sent[1].params)
        /\ c.args = LoginArgs => c.sent[1].params = None

\* C2 witness: the login request is on record, and so is a request of the caller
\* that carries the token.
C2_Witness ==
    /\ \E i \in 1..Len(trace) :
          trace[i].sent # <<>> /\ trace[i].args.mode = "POST" /\ ~trace[i].args.include_token
    /\ \E i \in 1..Len(call) : call[i].sent # <<>> /\ call[i].args.include_token

C4_ModeDispatch ==
    \A i \in 1..Len(call) :
        IF call[i].args.mode \in HttpVerbs
        THEN Len(call[i].sent) = 1 /\ call[i].sent[1].verb = call[i].args.mode
        ELSE call[i].exc = "ValueError" /\ call[i].sent = <<>>

\* C5: a makeApiCall that returns gives the URL and the parameters of the request
\* it made, the parsed body of the answer, and safe_json_serialize of both.
C5_ReturnsRawAndPretty ==
    \A c \in Calls :
        c.exc = "none" =>
            /\ Len(c.ret) = 1 /\ Len(c.sent) = 1
            /\ c.ret[1].url = c.sent[1].url
            /\ c.ret[1].endpoint_params = c.sent[1].params
            /\ c.ret[1].json_data = c.reply[1].body
            /\ c.ret[1].endpoint_params_pretty = dumps(c.sent[1].params).out
            /\ c.ret[1].json_data_pretty = dumps(c.reply[1].body).out
            /\ c.sent[1].params = Dict(<<>>) => c.ret[1].endpoint_params_pretty = <<"{", "}">>

\* C5 witness: a call of the caller with parameters of its own has returned.
C5_Witness ==
    \E i \in 1..Len(call) :
        /\ call[i].exc = "none"
        /\ call[i].args.include_token
        /\ S("page") \in Keys(call[i].args.endpoint_params)

\* C6 as stated: safe_json_serialize never raises, whatever object it is given.
C6_SerializeNeverRaises ==
    \A c \in Calls : ~(c.exc = "TypeError" /\ c.at = "safe_json_serialize")

\* C7: on a constructed object a makeApiCall with include_token=True sends as
\* "token" the token issued at login, and a timestamp as "_", whatever the caller
\* put under those keys; with include_token=False it sends endpoint_params as given.
C7_SendsLoginToken ==
    pc = "ready" =>
        \A i \in 1..Len(call) :
            call[i].sent # <<>> =>
                IF call[i].args.include_token
                THEN /\ Get(call[i].sent[1].params, S("token")) = token
                     /\ token = ExtractToken(trace[Len(trace)].reply[1].body)
                     /\ token \in Tokens
                     /\ Get(call[i].sent[1].params, S("_")) \in {Num(t) : t \in Times}
                ELSE call[i].sent[1].params = call[i].args.endpoint_params

\* C7 witness: a request went out for a call whose endpoint_params had a "token"
\* and a "_" of the caller's.
C7_Witness ==
    \E i \in 1..Len(call) :
        /\ call[i].sent # <<>>
        /\ call[i].args.include_token
        /\ TokenKeys \subseteq Keys(call[i].args.endpoint_params)

\* C8: the request goes to baseurl + "/api/v2" + url when bare_url is false, and
\* to url as given when bare_url is true.
C8_UrlByConcatenation ==
    \A c \in Sending :
        c.sent[1].url = IF c.args.bare_url
                        THEN c.args.url
                        ELSE Str(baseurl[2] \o <<"/api/v2">> \o c.args.url[2])

\* C8 witness: the login request went to the API path and a request of the caller
\* went to a bare URL.
C8_Witness ==
    /\ \E i \in 1..Len(trace) : trace[i].sent # <<>> /\ ~trace[i].args.bare_url
    /\ \E i \in 1..Len(call) : call[i].sent # <<>> /\ call[i].args.bare_url

ParamsFrame(c) ==
    IF c.args.include_token /\ IsDict(c.args.endpoint_params)
    THEN /\ Keys(c.params_after) \subseteq Keys(c.args.endpoint_params) \cup TokenKeys
         /\ \A k \in Keys(c.args.endpoint_params) \ TokenKeys :
               /\ HasKey(c.params_after, k)
               /\ Get(c.params_after, k) = Get(c.args.endpoint_params, k)
         /\ c.at # "path_to_url" =>
               /\ TokenKeys \subseteq Keys(c.params_after)
               /\ Get(c.params_after, S("token")) \in Tokens \cup {None}
               /\ Get(c.params_after, S("_")) \in {Num(t) : t \in Times}
    ELSE c.params_after = c.args.endpoint_params

\* C10: a makeApiCall of the caller leaves every field of the object as it was
\* (token changes only in the constructor); an invocation changes the caller's
\* endpoint_params only with include_token=True, and then sets exactly "token" and
\* "_" and keeps the other keys, also when it goes on to raise ValueError.
C10_Frame ==
    [][ /\ call' # call => UNCHANGED fields
        /\ token' # token => pc \in {"start", "login"}
        /\ \A c \in Calls' : ParamsFrame(c)
        /\ \A i \in 1..Len(call') :
              call'[i].args.include_token /\ IsDict(call'[i].args.endpoint_params) =>
                  Get(call'[i].params_after, S("token")) = token ]_vars

\* C10 witness: a call with an unsupported mode raised ValueError after the token
\* and the timestamp were written into the caller's mapping.
C10_Witness ==
    \E i \in 1..Len(call) :
        /\ call[i].exc = "ValueError"
        /\ call[i].args.include_token
        /\ S("page") \in Keys(call[i].args.endpoint_params)
        /\ Get(call[i].params_after, S("token")) = token
        /\ Get(call[i].args.endpoint_params, S("token")) = S("stale")

====
